---- MODULE Spec2Model ----
(***************************************************************************)
(* Model of scripts/fix-fluent-indent.py: the line classifier, the         *)
(* indentation state machine fix_builder_indentation and the region        *)
(* extraction / reassembly loop of main.                                   *)
(*                                                                         *)
(* Lines are strings; Python's str methods used by the script are          *)
(* operators over strings (TLC treats a string as a sequence of            *)
(* characters: Len, SubSeq and \o apply).                                  *)
(***************************************************************************)
EXTENDS Integers, Sequences, FiniteSets, TLC

VARIABLES
    \* ---- fix_builder_indentation (one call) ----
    fix_pc,         \* "idle" | "loop" | "returned"
    fix_lines,      \* the lines consumed so far by `for line in lines`
    base_indent,    \* parameter base_indent
    result,         \* list result
    indent_level,
    in_handler,
    handler_indent,
    brace_count,
    was_in_handler, \* history: the value of in_handler when each line was read
    \* ---- main (one invocation on a file) ----
    pc,             \* "idle" | "read" | "loop" | "write" | "done" | "failed"
    file,           \* the content of the file on disk (a string)
    original,       \* history: the content of the file when main started
    lines,          \* list lines
    i,              \* index of the next line of the for loop (1-based)
    in_function,
    output,
    func_lines,
    skip_next,
    \* ---- two successive invocations of main ----
    runs,           \* number of completed invocations
    first_output    \* history: file content after the first invocation

fixVars  == <<fix_pc, fix_lines, base_indent, result, indent_level, in_handler,
              handler_indent, brace_count, was_in_handler>>
mainVars == <<pc, lines, i, in_function, output, func_lines, skip_next>>
fileVars == <<file, original>>
runVars  == <<runs, first_output>>
vars     == <<fixVars, mainVars, fileVars, runVars>>

(***************************************************************************)
(* Bounds of the model.                                                    *)
(***************************************************************************)
MaxBody     == 4   \* lines given to one call of fix_builder_indentation
MaxLines    == 5   \* lines of a document main is followed through step by step
MaxRunLines == 6   \* lines of a document given to whole invocations of main
MaxBrace    == 1   \* shift of brace_count a step is replayed with

(***************************************************************************)
(* Python str operations used by the script.                               *)
(***************************************************************************)
\* The ASCII whitespace str.lstrip() and str.rstrip() remove.
Whitespace == {" ", "\t", "\n", "\r", "\f"}

Char(s, k) == SubSeq(s, k, k)

RECURSIVE lstrip(_)
lstrip(s) ==
    IF Len(s) > 0 /\ Char(s, 1) \in Whitespace
    THEN lstrip(SubSeq(s, 2, Len(s)))
    ELSE s

RECURSIVE rstrip(_)
rstrip(s) ==
    IF Len(s) > 0 /\ Char(s, Len(s)) \in Whitespace
    THEN rstrip(SubSeq(s, 1, Len(s) - 1))
    ELSE s

strip(s) == rstrip(lstrip(s))

RECURSIVE rstrip_newline(_)
rstrip_newline(s) ==
    IF Len(s) > 0 /\ Char(s, Len(s)) = "\n"
    THEN rstrip_newline(SubSeq(s, 1, Len(s) - 1))
    ELSE s

startswith(s, p) == Len(s) >= Len(p) /\ SubSeq(s, 1, Len(p)) = p

\* p in s
contains(p, s) ==
    \E k \in 1..(Len(s) - Len(p) + 1) : SubSeq(s, k, k + Len(p) - 1) = p

\* s.count(c) for a one-character c
count(s, c) == Cardinality({k \in 1..Len(s) : Char(s, k) = c})

\* '\t' * n
RECURSIVE Tabs(_)
Tabs(n) == IF n <= 0 THEN "" ELSE "\t" \o Tabs(n - 1)

Max(a, b) == IF a >= b THEN a ELSE b

(***************************************************************************)
(* Line classifier.                                                        *)
(***************************************************************************)
should_indent_after(line) ==
    LET stripped == strip(line) IN
        \/ startswith(stripped, "Subcommand(")
        \/ startswith(stripped, "Flag(")
        \/ startswith(stripped, "Arg(")

should_dedent_before(line) ==
    LET stripped == strip(line) IN startswith(stripped, "Done().")

is_handler_line(line) == contains("Handler(func", line)

\* Variant of is_handler_end that ignores whitespace after the token.
is_handler_end_trailing(stripped) == rstrip(stripped) = "})."

\* if stripped == '}).'
is_handler_end(stripped) == stripped = "})."

(***************************************************************************)
(* fix_builder_indentation: the loop body, one branch per operator.  ctx   *)
(* is the record of the function's local variables.                        *)
(***************************************************************************)
FixInit(base) ==
    [result |-> <<>>, indent_level |-> base, in_handler |-> FALSE,
     handler_indent |-> 0, brace_count |-> 0]

\* Variant of FixBlank that skips the line without emitting anything.
FixBlankDropped(ctx) == ctx

\* if not stripped: result.append('')
FixBlank(ctx) == [ctx EXCEPT !.result = Append(@, "")]

\* Variant of FixComment in which a comment that mentions a handler opens a
\* handler block and its braces are counted.
FixCommentScanned(ctx, stripped) ==
    [ctx EXCEPT !.result = Append(@, Tabs(ctx.indent_level) \o stripped),
                !.in_handler = @ \/ is_handler_line(stripped),
                !.brace_count = @ + count(stripped, "{") - count(stripped, "}")]

\* if stripped.startswith('//'): result.append('\t' * indent_level + stripped)
FixComment(ctx, stripped) ==
    [ctx EXCEPT !.result = Append(@, Tabs(ctx.indent_level) \o stripped)]

\* Variant of FixHandlerStart that lets an opening marker at the head of the
\* handler line raise the level.
FixHandlerStartIndents(ctx, stripped) ==
    [ctx EXCEPT !.in_handler = TRUE,
                !.handler_indent = ctx.indent_level,
                !.result = Append(@, Tabs(ctx.indent_level) \o stripped),
                !.brace_count = count(stripped, "{") - count(stripped, "}"),
                !.indent_level = IF should_indent_after(stripped) THEN @ + 1 ELSE @]

\* if is_handler_line(stripped) and not in_handler: ...
FixHandlerStart(ctx, stripped) ==
    [ctx EXCEPT !.in_handler = TRUE,
                !.handler_indent = ctx.indent_level,
                !.result = Append(@, Tabs(ctx.indent_level) \o stripped),
                !.brace_count = count(stripped, "{") - count(stripped, "}")]

\* Variant of FixInHandler that ends the handler block when the braces counted
\* since the handler line balance.
FixInHandlerBalanced(ctx, line, stripped) ==
    LET counted == [ctx EXCEPT !.brace_count =
                        @ + count(stripped, "{") - count(stripped, "}")]
    IN  IF counted.brace_count = 0
        THEN [counted EXCEPT !.in_handler = FALSE,
                             !.result = Append(@, Tabs(ctx.indent_level) \o stripped)]
        ELSE [counted EXCEPT !.result = Append(@, rstrip(line))]

\* if in_handler: ...
FixInHandler(ctx, line, stripped) ==
    LET counted == [ctx EXCEPT !.brace_count =
                        @ + count(stripped, "{") - count(stripped, "}")]
    IN  IF is_handler_end(stripped)
        THEN [counted EXCEPT !.in_handler = FALSE,
                             !.result = Append(@, Tabs(ctx.indent_level) \o stripped)]
        ELSE [counted EXCEPT !.result = Append(@, rstrip(line))]

\* Variant of dedent_level without the clamp at base_indent.
dedent_level_unclamped(base, level) == level - 1

\* indent_level = max(base_indent, indent_level - 1)
dedent_level(base, level) == Max(base, level - 1)

\* Variant of FixDedent that emits the line before lowering the level.
FixDedentAfter(ctx, stripped, base) ==
    [ctx EXCEPT !.indent_level = dedent_level(base, ctx.indent_level),
                !.result = Append(@, Tabs(ctx.indent_level) \o stripped)]

\* if should_dedent_before(stripped): ...
FixDedent(ctx, stripped, base) ==
    LET level == dedent_level(base, ctx.indent_level)
    IN  [ctx EXCEPT !.indent_level = level,
                    !.result = Append(@, Tabs(level) \o stripped)]

\* Variant of FixPlain that raises the level before emitting the line.
FixPlainIndentBefore(ctx, stripped) ==
    LET level == IF should_indent_after(stripped)
                 THEN ctx.indent_level + 1 ELSE ctx.indent_level
    IN  [ctx EXCEPT !.result = Append(@, Tabs(level) \o stripped),
                    !.indent_level = level]

\* result.append('\t' * indent_level + stripped); if should_indent_after: += 1
FixPlain(ctx, stripped) ==
    [ctx EXCEPT !.result = Append(@, Tabs(ctx.indent_level) \o stripped),
                !.indent_level = IF should_indent_after(stripped) THEN @ + 1 ELSE @]

\* One iteration of `for line in lines`.
FixStep(ctx, line, base) ==
    LET stripped == lstrip(line) IN
        IF stripped = "" THEN FixBlank(ctx)
        ELSE IF startswith(stripped, "//") THEN FixComment(ctx, stripped)
        ELSE IF is_handler_line(stripped) /\ ~ctx.in_handler
             THEN FixHandlerStart(ctx, stripped)
        ELSE IF ctx.in_handler THEN FixInHandler(ctx, line, stripped)
        ELSE IF should_dedent_before(stripped) THEN FixDedent(ctx, stripped, base)
        ELSE FixPlain(ctx, stripped)

\* The whole loop, from the context ctx on.
RECURSIVE FixLoop(_, _, _)
FixLoop(ctx, ls, base) ==
    IF ls = <<>> THEN ctx
    ELSE FixLoop(FixStep(ctx, Head(ls), base), Tail(ls), base)

DefaultBaseIndent == 2

\* fix_builder_indentation(lines, base_indent)
fix_builder_indentation(ls, base) == FixLoop(FixInit(base), ls, base).result

(***************************************************************************)
(* main: reading the file, the region loop, writing the file.              *)
(***************************************************************************)
Signature == "func buildRootCommand()"

\* Iterating a text file: each element ends with its '\n', the last one
\* possibly without.
RECURSIVE FileLines(_)
FileLines(bytes) ==
    IF bytes = "" THEN <<>>
    ELSE IF \E k \in 1..Len(bytes) : Char(bytes, k) = "\n"
         THEN LET k == CHOOSE k \in 1..Len(bytes) :
                          /\ Char(bytes, k) = "\n"
                          /\ \A j \in 1..(k - 1) : Char(bytes, j) # "\n"
              IN  <<SubSeq(bytes, 1, k)>> \o FileLines(SubSeq(bytes, k + 1, Len(bytes)))
         ELSE <<bytes>>

\* lines = [line.rstrip('\n') for line in f]
ReadLines(bytes) ==
    LET raw == FileLines(bytes) IN [k \in 1..Len(raw) |-> rstrip_newline(raw[k])]

\* Variant of WriteLines that puts the newline between the lines only.
RECURSIVE WriteLinesJoined(_)
WriteLinesJoined(out) ==
    IF out = <<>> THEN ""
    ELSE IF Len(out) = 1 THEN Head(out)
    ELSE (Head(out) \o "\n") \o WriteLinesJoined(Tail(out))

\* for line in output: f.write(line + '\n')
RECURSIVE WriteLines(_)
WriteLines(out) ==
    IF out = <<>> THEN "" ELSE (Head(out) \o "\n") \o WriteLines(Tail(out))

\* Variant of MainInit that starts the loop as if inside the function.
MainInitInFunction ==
    [in_function |-> TRUE, output |-> <<>>, func_lines |-> <<>>, skip_next |-> FALSE]

MainInit ==
    [in_function |-> FALSE, output |-> <<>>, func_lines |-> <<>>, skip_next |-> FALSE]

\* if line.startswith('}') and not '}).' in line
is_function_end(line) == startswith(line, "}") /\ ~contains("}).", line)

\* Variant of MainStep that copies the header line with the signature line but
\* does not skip it: the next iteration treats it as a line of the region.
MainStepNoSkip(st, ls, k) ==
    LET line == ls[k] IN
        IF st.skip_next THEN [st EXCEPT !.skip_next = FALSE]
        ELSE IF contains(Signature, line)
             THEN [st EXCEPT !.in_function = TRUE,
                             !.output = IF k + 1 <= Len(ls)
                                        THEN @ \o <<line, ls[k + 1]>>
                                        ELSE Append(@, line)]
        ELSE IF st.in_function
             THEN IF is_function_end(line)
                  THEN [st EXCEPT !.output = (@ \o fix_builder_indentation(
                                                    st.func_lines, DefaultBaseIndent))
                                               \o <<line>>,
                                  !.in_function = FALSE,
                                  !.func_lines = <<>>]
                  ELSE [st EXCEPT !.func_lines = Append(@, line)]
        ELSE [st EXCEPT !.output = Append(@, line)]

\* One iteration of `for i, line in enumerate(lines)`; k is the 1-based index.
MainStep(st, ls, k) ==
    LET line == ls[k] IN
        IF st.skip_next THEN [st EXCEPT !.skip_next = FALSE]
        ELSE IF contains(Signature, line)
             THEN [st EXCEPT !.in_function = TRUE,
                             !.output = IF k + 1 <= Len(ls)
                                        THEN @ \o <<line, ls[k + 1]>>
                                        ELSE Append(@, line),
                             !.skip_next = (k + 1 <= Len(ls))]
        ELSE IF st.in_function
             THEN IF is_function_end(line)
                  THEN [st EXCEPT !.output = (@ \o fix_builder_indentation(
                                                    st.func_lines, DefaultBaseIndent))
                                               \o <<line>>,
                                  !.in_function = FALSE,
                                  !.func_lines = <<>>]
                  ELSE [st EXCEPT !.func_lines = Append(@, line)]
        ELSE [st EXCEPT !.output = Append(@, line)]

RECURSIVE MainLoop(_, _, _)
MainLoop(st, ls, k) ==
    IF k > Len(ls) THEN st ELSE MainLoop(MainStep(st, ls, k), ls, k + 1)

\* The file content main leaves behind, from the content it finds.
main(bytes) == WriteLines(MainLoop(MainInit, ReadLines(bytes), 1).output)

(***************************************************************************)
(* Inputs.                                                                 *)
(***************************************************************************)
\* Lines of a region body given to fix_builder_indentation.
BodyLines ==
    {"Subcommand(", " Flag(", "Arg(", "Done().", "Handler(func() {", "}).",
     "\tx ", " ", "// Flag(x).Done().Handler(func() {", "Flag(Handler(func",
     "Done().Handler(func", "}). "}

BaseIndents == {0, DefaultBaseIndent}

\* Lines of a document given to main.
DocLines ==
    {"func buildRootCommand() {", "}", "Handler(func() {", "}). ", " x"}

SeqsUpTo(S, n) == UNION {[1..k -> S] : k \in 0..n}

\* The bytes of a file holding the lines ls, with or without a final newline.
RECURSIVE Join(_)
Join(ls) ==
    IF ls = <<>> THEN ""
    ELSE IF Len(ls) = 1 THEN Head(ls)
    ELSE (Head(ls) \o "\n") \o Join(Tail(ls))

FilesOf(n) ==
    {Join(ls) : ls \in SeqsUpTo(DocLines, n)}
        \cup {Join(ls) \o "\n" : ls \in SeqsUpTo(DocLines, n) \ {<<>>}}

(***************************************************************************)
(* SpecFix: one call of fix_builder_indentation, line by line.             *)
(***************************************************************************)
MainIdle ==
    /\ pc = "idle" /\ lines = <<>> /\ i = 1
    /\ in_function = FALSE /\ output = <<>> /\ func_lines = <<>>
    /\ skip_next = FALSE

FixIdle ==
    /\ fix_pc = "idle" /\ fix_lines = <<>> /\ base_indent = DefaultBaseIndent
    /\ result = <<>> /\ indent_level = DefaultBaseIndent /\ in_handler = FALSE
    /\ handler_indent = 0 /\ brace_count = 0 /\ was_in_handler = <<>>

RunsIdle == runs = 0 /\ first_output = ""

FixCtx ==
    [result |-> result, indent_level |-> indent_level, in_handler |-> in_handler,
     handler_indent |-> handler_indent, brace_count |-> brace_count]

InitFix ==
    /\ fix_pc = "loop"
    /\ fix_lines = <<>>
    /\ base_indent \in BaseIndents
    /\ result = FixInit(base_indent).result
    /\ indent_level = FixInit(base_indent).indent_level
    /\ in_handler = FixInit(base_indent).in_handler
    /\ handler_indent = FixInit(base_indent).handler_indent
    /\ brace_count = FixInit(base_indent).brace_count
    /\ was_in_handler = <<>>
    /\ MainIdle /\ RunsIdle
    /\ file = "" /\ original = ""

\* One iteration of the for loop of fix_builder_indentation on the next line.
FixIter ==
    /\ fix_pc = "loop"
    /\ Len(fix_lines) < MaxBody
    /\ \E line \in BodyLines :
        LET next == FixStep(FixCtx, line, base_indent) IN
            /\ fix_lines' = Append(fix_lines, line)
            /\ result' = next.result
            /\ indent_level' = next.indent_level
            /\ in_handler' = next.in_handler
            /\ handler_indent' = next.handler_indent
            /\ brace_count' = next.brace_count
            /\ was_in_handler' = Append(was_in_handler, in_handler)
    /\ UNCHANGED <<fix_pc, base_indent, mainVars, fileVars, runVars>>

\* The lines are exhausted: return result.
FixReturn ==
    /\ fix_pc = "loop"
    /\ fix_pc' = "returned"
    /\ UNCHANGED <<fix_lines, base_indent, result, indent_level, in_handler,
                   handler_indent, brace_count, was_in_handler, mainVars,
                   fileVars, runVars>>

NextFix == FixIter \/ FixReturn

SpecFix == InitFix /\ [][NextFix]_vars

(***************************************************************************)
(* Spec: one invocation of main on a file.                                 *)
(***************************************************************************)
Init ==
    /\ file \in FilesOf(MaxLines)
    /\ original = file
    /\ pc = "read"
    /\ lines = <<>> /\ i = 1
    /\ in_function = FALSE /\ output = <<>> /\ func_lines = <<>>
    /\ skip_next = FALSE
    /\ FixIdle /\ RunsIdle

\* with open(filename, 'r') as f: lines = [...]; locals initialised
Read ==
    /\ pc = "read"
    /\ lines' = ReadLines(file)
    /\ i' = 1
    /\ in_function' = MainInit.in_function
    /\ output' = MainInit.output
    /\ func_lines' = MainInit.func_lines
    /\ skip_next' = MainInit.skip_next
    /\ pc' = "loop"
    /\ UNCHANGED <<fixVars, fileVars, runVars>>

MainSt ==
    [in_function |-> in_function, output |-> output, func_lines |-> func_lines,
     skip_next |-> skip_next]

\* One iteration of the for loop of main (with the call of
\* fix_builder_indentation it makes at the end of the function).
Iter ==
    /\ pc = "loop"
    /\ i <= Len(lines)
    /\ LET next == MainStep(MainSt, lines, i) IN
            /\ in_function' = next.in_function
            /\ output' = next.output
            /\ func_lines' = next.func_lines
            /\ skip_next' = next.skip_next
    /\ i' = i + 1
    /\ UNCHANGED <<pc, lines, fixVars, fileVars, runVars>>

\* open(filename, 'r') or the reading raises IOError: main ends there.
ReadFail ==
    /\ pc = "read"
    /\ pc' = "failed"
    /\ UNCHANGED <<lines, i, in_function, output, func_lines, skip_next,
                   fixVars, fileVars, runVars>>

\* The loop is over; open(filename, 'w') truncates the file.
OpenForWrite ==
    /\ pc = "loop"
    /\ i > Len(lines)
    /\ file' = ""
    /\ pc' = "write"
    /\ UNCHANGED <<original, lines, i, in_function, output, func_lines, skip_next,
                   fixVars, runVars>>

\* for line in output: f.write(line + '\n'), and the close that flushes what
\* was written (the writes are buffered) to the file.
Write ==
    /\ pc = "write"
    /\ file' = WriteLines(output)
    /\ pc' = "done"
    /\ UNCHANGED <<original, lines, i, in_function, output, func_lines, skip_next,
                   fixVars, runVars>>

\* A write or the flush raises IOError (disk full, ...) before anything
\* reached the file: main ends with the file as open() left it.
WriteFail ==
    /\ pc = "write"
    /\ pc' = "failed"
    /\ UNCHANGED <<lines, i, in_function, output, func_lines, skip_next,
                   fixVars, fileVars, runVars>>

Next == Read \/ ReadFail \/ Iter \/ OpenForWrite \/ Write \/ WriteFail

Spec == Init /\ [][Next]_vars

(***************************************************************************)
(* SpecTwice: main invoked on a file, then again on the file it left.      *)
(***************************************************************************)
InitTwice ==
    /\ file \in FilesOf(MaxRunLines)
    /\ original = file
    /\ MainIdle /\ FixIdle /\ RunsIdle

\* A whole invocation of main: read, loop, write.
Transform ==
    /\ runs < 2
    /\ file' = main(file)
    /\ runs' = runs + 1
    /\ first_output' = IF runs = 0 THEN main(file) ELSE first_output
    /\ UNCHANGED <<original, mainVars, fixVars>>

NextTwice == Transform

SpecTwice == InitTwice /\ [][NextTwice]_vars

(***************************************************************************)
(* Properties of fix_builder_indentation (checked under SpecFix).          *)
(*                                                                         *)
(* The classification of lines below follows the wording of the            *)
(* properties, not the branches of FixStep.                                *)
(***************************************************************************)
RECURSIVE LeadingTabs(_)
LeadingTabs(s) ==
    IF Len(s) > 0 /\ Char(s, 1) = "\t" THEN 1 + LeadingTabs(SubSeq(s, 2, Len(s)))
    ELSE 0

\* The step consumes one more line.
Consumes == Len(fix_lines') = Len(fix_lines) + 1
LineRead == fix_lines'[Len(fix_lines')]
Emitted  == result'[Len(result')]
\* The trimmed text of a line is the script's `stripped`: line.lstrip().
Trimmed(line) == lstrip(line)

StartsOpening(t) ==
    startswith(t, "Subcommand(") \/ startswith(t, "Flag(") \/ startswith(t, "Arg(")
StartsClosing(t) == startswith(t, "Done().")
IsBlank(line)    == Trimmed(line) = ""
IsComment(line)  == startswith(Trimmed(line), "//")
HasHandler(line) == contains("Handler(func", line)

\* in_handler after line k was processed
ModeAfter(k) == IF k < Len(fix_lines) THEN was_in_handler[k + 1] ELSE in_handler

\* Index of the line that opened the handler block the machine is in.
HandlerStart ==
    CHOOSE k \in 1..Len(fix_lines) :
        /\ ~was_in_handler[k]
        /\ \A j \in k..Len(fix_lines) : ModeAfter(j)

\* C3 (as stated in the specification): when a handler block ends, every line
\* strictly between its verbatim-start line and its verbatim-end line was
\* emitted byte-identical to the input line.
VerbatimFidelity ==
    [][(Consumes /\ in_handler /\ ~in_handler')
        => \A k \in (HandlerStart + 1)..Len(fix_lines) : result[k] = fix_lines[k]]_vars

\* C5 (as stated in the specification): every emitted line has at least
\* base_indent leading tabs.
IndentFloorAllLines ==
    \A k \in 1..Len(result) : LeadingTabs(result[k]) >= base_indent

\* C5 (amended): every emitted line has at least base_indent leading tabs,
\* except blank lines (emitted empty) and the non-comment lines inside a
\* handler block other than its end line (emitted with their own indentation).
IndentFloor ==
    [][Consumes =>
        \/ IsBlank(LineRead)
        \/ in_handler /\ ~IsComment(LineRead) /\ Trimmed(LineRead) # "})."
        \/ LeadingTabs(Emitted) >= base_indent]_vars

\* C5 witness: a Done(). line met at the base level was emitted with exactly
\* base_indent tabs, base_indent being 2.
IndentFloorWitness ==
    /\ base_indent = 2
    /\ fix_lines = <<"Done().", "\tx ">>
    /\ result = <<"\t\tDone().", "\t\tx ">>

ScenarioA == <<"Subcommand(", " Flag(", "Done().", "Done().">>

\* The body of scenario A is emitted at base, base+1, base+1, base.
ScenarioAHolds ==
    fix_lines' = ScenarioA =>
        result' = <<Tabs(base_indent) \o "Subcommand(",
                    Tabs(base_indent + 1) \o "Flag(",
                    Tabs(base_indent + 1) \o "Done().",
                    Tabs(base_indent) \o "Done().">>

\* C6 (as stated in the specification): in NORMAL mode a line whose trimmed text
\* starts with an opening marker is emitted at the current level L and leaves
\* the level at L+1; one that starts with Done(). lowers the level to
\* max(base_indent, L-1) and is emitted at the new level.
AsymmetricTimingAllLines ==
    [][(Consumes /\ ~in_handler) =>
        /\ StartsOpening(Trimmed(LineRead)) =>
              /\ Emitted = Tabs(indent_level) \o lstrip(LineRead)
              /\ indent_level' = indent_level + 1
        /\ StartsClosing(Trimmed(LineRead)) =>
              /\ indent_level' = Max(base_indent, indent_level - 1)
              /\ Emitted = Tabs(indent_level') \o lstrip(LineRead)
        /\ ScenarioAHolds]_vars

\* C6 (amended): the same, for the marker lines that do not contain
\* 'Handler(func' (such a line starts a handler block instead: it is emitted
\* at L and leaves the level at L).
AsymmetricTiming ==
    [][(Consumes /\ ~in_handler) =>
        /\ (StartsOpening(Trimmed(LineRead)) /\ ~HasHandler(LineRead)) =>
              /\ Emitted = Tabs(indent_level) \o lstrip(LineRead)
              /\ indent_level' = indent_level + 1
        /\ (StartsClosing(Trimmed(LineRead)) /\ ~HasHandler(LineRead)) =>
              /\ indent_level' = Max(base_indent, indent_level - 1)
              /\ Emitted = Tabs(indent_level') \o lstrip(LineRead)
        /\ (StartsOpening(Trimmed(LineRead)) /\ HasHandler(LineRead)) =>
              /\ Emitted = Tabs(indent_level) \o lstrip(LineRead)
              /\ indent_level' = indent_level
        /\ ScenarioAHolds]_vars

\* C6 witness: scenario A was processed with base_indent 2.
AsymmetricTimingWitness ==
    /\ base_indent = 2
    /\ fix_lines = ScenarioA
    /\ result = <<"\t\tSubcommand(", "\t\t\tFlag(", "\t\t\tDone().", "\t\tDone().">>
    /\ indent_level = 2

\* Walk over the lines read so far with the stack of the levels at which the
\* open markers were emitted; FALSE once a Done(). is emitted at another level
\* than the marker it closes.  A Done(). met with no marker open ends the walk:
\* the body is not well nested.
\* A marker line counts when it was read in NORMAL mode; with plain set, only
\* when it does not contain 'Handler(func' either.
NormalOpening(k, plain) ==
    /\ ~was_in_handler[k] /\ StartsOpening(Trimmed(fix_lines[k]))
    /\ plain => ~HasHandler(fix_lines[k])
NormalClosing(k, plain) ==
    /\ ~was_in_handler[k] /\ StartsClosing(Trimmed(fix_lines[k]))
    /\ plain => ~HasHandler(fix_lines[k])

RECURSIVE DoneAligned(_, _, _)
DoneAligned(k, stack, plain) ==
    IF k > Len(fix_lines) THEN TRUE
    ELSE IF NormalOpening(k, plain)
         THEN DoneAligned(k + 1, <<LeadingTabs(result[k])>> \o stack, plain)
    ELSE IF NormalClosing(k, plain)
         THEN IF stack = <<>> THEN TRUE
              ELSE /\ LeadingTabs(result[k]) = Head(stack)
                   /\ DoneAligned(k + 1, Tail(stack), plain)
    ELSE DoneAligned(k + 1, stack, plain)

HandlerFraming ==
    [][Consumes =>
        /\ (~in_handler /\ ~IsBlank(LineRead) /\ ~IsComment(LineRead)
                /\ HasHandler(LineRead)) =>
              /\ Emitted = Tabs(indent_level) \o lstrip(LineRead)
              /\ indent_level' = indent_level
        /\ in_handler => indent_level' = indent_level
        /\ (in_handler /\ Trimmed(LineRead) = "}).") =>
              /\ Emitted = Tabs(indent_level) \o "})."
              /\ indent_level' = LeadingTabs(result[HandlerStart])]_vars

\* C8 witness: a handler block opened at level 3 by a line that starts with
\* Flag(, holding marker lines, was closed at level 3.
HandlerFramingWitness ==
    /\ fix_lines = <<"Subcommand(", "Flag(Handler(func", "Done().", "}).">>
    /\ base_indent = 2
    /\ result[2] = "\t\t\tFlag(Handler(func"
    /\ result[4] = "\t\t\t})."
    /\ indent_level = 3
    /\ ~in_handler

(***************************************************************************)
(* Properties of main (checked under Spec and SpecTwice).                  *)
(***************************************************************************)
EndsWithNewline(bytes) == Len(bytes) > 0 /\ Char(bytes, Len(bytes)) = "\n"

LStripped(ls) == [k \in 1..Len(ls) |-> lstrip(ls[k])]

\* C2 (as stated in the specification): once main is done, the output has the
\* lines of the input, in the same order, up to the leading whitespace of each
\* line.
TokenPreservation ==
    pc = "done" => LStripped(output) = LStripped(lines)

\* C4 (as stated in the specification): a document without the signature is
\* written back byte for byte.
IdentityFallbackBytes ==
    (pc = "done" /\ ~contains(Signature, original)) => file = original

\* C4 (amended): a document without the signature is written back with the same
\* lines; the bytes are those of the input, with a newline added after the last
\* line when the input does not end with one.
IdentityFallback ==
    (pc = "done" /\ ~contains(Signature, original)) =>
        /\ output = lines
        /\ file = IF original = "" \/ EndsWithNewline(original)
                  THEN original ELSE original \o "\n"

\* C4 witness: a document of three lines without the signature and without a
\* final newline was written back, now with a final newline.
IdentityFallbackWitness ==
    /\ pc = "done"
    /\ original = " x\nHandler(func() {\n}"
    /\ file = " x\nHandler(func() {\n}\n"

\* The state machine is inside an unterminated handler block after the body
\* lines ls.
InOpenHandler(ls) == FixLoop(FixInit(DefaultBaseIndent), ls, DefaultBaseIndent).in_handler

\* C9 (as stated in the specification): a line of the region (after the
\* signature line and its header line) that is read while the body so far
\* leaves a handler block open does not end the region, whether or not it
\* starts with '}'.
RegionEndRespectsVerbatim ==
    [][(pc = "loop" /\ i' = i + 1 /\ in_function /\ ~skip_next
            /\ ~contains(Signature, lines[i]) /\ InOpenHandler(func_lines))
        => in_function']_vars

\* The first line of ls that contains the signature (0 when there is none).
FirstSignature(ls) ==
    IF \E k \in 1..Len(ls) : contains(Signature, ls[k])
    THEN CHOOSE k \in 1..Len(ls) :
            /\ contains(Signature, ls[k])
            /\ \A j \in 1..(k - 1) : ~contains(Signature, ls[j])
    ELSE 0

\* Line c closes the region opened by the first signature line s: it is the
\* first line after the header that starts with '}' and holds no '}).', and
\* the lines of the region hold no signature.
ClosesFirstRegion(ls, c) ==
    LET s == FirstSignature(ls) IN
        /\ s > 0 /\ c > s + 1 /\ c <= Len(ls)
        /\ is_function_end(ls[c])
        /\ \A j \in (s + 2)..c : ~contains(Signature, ls[j])
        /\ \A j \in (s + 2)..(c - 1) : ~is_function_end(ls[j])

\* The last n elements of ls.
LastLines(ls, n) == SubSeq(ls, Len(ls) - n + 1, Len(ls))

\* C10 (as stated in the specification): the line that closes the first region
\* and every line after it are the last lines of the output, unchanged.
SuffixUntouched ==
    runs = 1 =>
        LET ls == ReadLines(original) IN
            \A c \in 1..Len(ls) :
                ClosesFirstRegion(ls, c) =>
                    /\ Len(ReadLines(file)) >= Len(ls) - c + 1
                    /\ LastLines(ReadLines(file), Len(ls) - c + 1)
                            = SubSeq(ls, c, Len(ls))

\* C1 (as stated in the specification): main run on its own output leaves the
\* file as the first run left it.
Idempotence == runs = 2 => file = first_output

\* C11: the file main has written holds every line of output followed by a
\* newline, the last line too: it is empty or ends with a newline, and it
\* holds as many newlines as output has lines, whether or not the original
\* ended with one.
TrailingNewline ==
    pc = "done" =>
        /\ output = <<>> => file = ""
        /\ output # <<>> => EndsWithNewline(file)
        /\ count(file, "\n") = Len(output)
        /\ ReadLines(file) = output

\* C11 witness: a file whose last line had no newline was written back with
\* a newline after that line.
TrailingNewlineWitness ==
    /\ pc = "done"
    /\ original = "func buildRootCommand() {\n x"
    /\ file = "func buildRootCommand() {\n x\n"

\* C12 (as stated in the specification): when main ends on a failed read or
\* write, the file holds either its original content or the complete
\* transformed content; and the file is opened for writing only once the loop
\* over the lines is over.
NoPartialWrite ==
    /\ pc = "failed" => (file = original \/ file = main(original))
    /\ pc = "write" => i > Len(lines)

(***************************************************************************)
(* Further properties of fix_builder_indentation (under SpecFix).          *)
(***************************************************************************)
\* C13: indent_level never goes below base_indent, and a line that starts
\* with Done(). read while indent_level is base_indent leaves it at
\* base_indent.
IndentLevelInvariant ==
    /\ [](indent_level >= base_indent)
    /\ [][(Consumes /\ StartsClosing(Trimmed(LineRead))
                /\ indent_level = base_indent)
            => indent_level' = base_indent]_vars

\* C13 witness: two Done(). lines read at the base level 2, both emitted at
\* level 2, the level still 2.
IndentLevelWitness ==
    /\ base_indent = 2
    /\ fix_lines = <<"Done().", "Done().">>
    /\ result = <<"\t\tDone().", "\t\tDone().">>
    /\ indent_level = 2

\* C14: the machine starts in NORMAL mode; in_handler turns true exactly on a
\* non-blank, non-comment line that contains 'Handler(func' read in NORMAL
\* mode, and turns false exactly on a non-comment line read in VERBATIM mode
\* whose trimmed text is '}).'; every other line leaves in_handler as it was.
VerbatimTransitions ==
    /\ [](fix_lines = <<>> => ~in_handler)
    /\ [][Consumes =>
            /\ (~in_handler /\ in_handler') <=>
                    (/\ ~in_handler /\ HasHandler(LineRead)
                     /\ ~IsBlank(LineRead) /\ ~IsComment(LineRead))
            /\ (in_handler /\ ~in_handler') <=>
                    (in_handler /\ Trimmed(LineRead) = "}).")]_vars

\* C14 witness: NORMAL -> VERBATIM on the handler line, VERBATIM kept on a
\* line that contains 'Handler(func' and on '}). ' with a trailing space,
\* VERBATIM -> NORMAL on '}).'.
VerbatimTransitionsWitness ==
    /\ fix_lines = <<"Handler(func() {", "Flag(Handler(func", "}). ", "}).">>
    /\ was_in_handler = <<FALSE, TRUE, TRUE, TRUE>>
    /\ ~in_handler

\* C15 (as stated in the specification): when the function returns inside a
\* handler block that was never closed, every line after the verbatim-start
\* line was emitted identical to the input line.
FailOpenUnchanged ==
    (fix_pc = "returned" /\ in_handler) =>
        \A k \in (HandlerStart + 1)..Len(fix_lines) : result[k] = fix_lines[k]

\* C16: every line read so far has exactly one output line, whose content is
\* that of the input line up to leading and trailing whitespace; the loop has
\* run once per line read; the function is never stuck before it returns
\* (whatever the next line is, the loop can go on or return); a step reads
\* one line, appends one line to result and leaves the lines emitted before
\* as they were; the function returns result as the loop left it.
SinglePass ==
    /\ [](/\ Len(result) = Len(fix_lines)
          /\ Len(was_in_handler) = Len(fix_lines)
          /\ \A k \in 1..Len(fix_lines) : strip(result[k]) = strip(fix_lines[k])
          /\ fix_pc = "returned" \/ ENABLED NextFix)
    /\ [][/\ Len(fix_lines') \in {Len(fix_lines), Len(fix_lines) + 1}
          /\ SubSeq(fix_lines', 1, Len(fix_lines)) = fix_lines
          /\ SubSeq(result', 1, Len(result)) = result
          /\ fix_pc = "returned" => fix_pc' = "returned"]_vars

\* C16 witness: the function returned after four lines, among them a blank
\* line and a stray '}).', with four output lines.
SinglePassWitness ==
    /\ fix_pc = "returned"
    /\ base_indent = 2
    /\ fix_lines = <<"\tx ", " ", "}).", "Done().">>
    /\ result = <<"\t\tx ", "", "\t\t}).", "\t\tDone().">>

PrefixLen(ls) ==
    IF FirstSignature(ls) + 1 <= Len(ls)
    THEN FirstSignature(ls) + 1 ELSE Len(ls)

\* C18: once the loop is past the first signature line, the output starts
\* with the lines before it, the signature line and the header line, as they
\* were read (and right after the signature line it is exactly those); the
\* iteration on the header line changes neither the output, nor the region
\* lines collected, nor in_function, whatever the header line is.
PrefixHeaderUntouched ==
    /\ []((pc \in {"loop", "write", "done"} /\ FirstSignature(lines) > 0
            /\ i > FirstSignature(lines)) =>
            /\ Len(output) >= PrefixLen(lines)
            /\ SubSeq(output, 1, PrefixLen(lines))
                   = SubSeq(lines, 1, PrefixLen(lines))
            /\ i = FirstSignature(lines) + 1 =>
                  /\ output = SubSeq(lines, 1, PrefixLen(lines))
                  /\ func_lines = <<>>)
    /\ [][(pc = "loop" /\ FirstSignature(lines) > 0
            /\ i = FirstSignature(lines) + 1 /\ i' = i + 1) =>
              /\ output' = output
              /\ func_lines' = func_lines
              /\ in_function' = in_function]_vars

\* A document with a prefix line, the signature line and a header line that
\* starts with a closing brace: the header is copied, the region after it is
\* re-indented and ends at the second closing brace.
PrefixHeaderWitness ==
    /\ pc = "done"
    /\ lines = <<" x", "func buildRootCommand() {", "}", " x", "}">>
    /\ output = <<" x", "func buildRootCommand() {", "}", "\t\tx", "}">>

\* The step just taken, replayed from the same state with brace_count set to b.
Replayed(b) == FixStep([FixCtx EXCEPT !.brace_count = b], LineRead, base_indent)

\* C19: with brace_count lower or higher by MaxBrace when a line is read, the
\* step emits the same lines and leaves the same indent_level, in_handler and
\* handler_indent; inside a handler block the line with trimmed text '}).'
\* ends the block and no other line does, whatever the count is or becomes.
BraceNonInterference ==
    [][Consumes =>
        /\ \A b \in {brace_count - MaxBrace, brace_count + MaxBrace} :
              LET other == Replayed(b) IN
                  /\ other.result = result'
                  /\ other.indent_level = indent_level'
                  /\ other.in_handler = in_handler'
                  /\ other.handler_indent = handler_indent'
        /\ (in_handler /\ Trimmed(LineRead) = "}).") => ~in_handler'
        /\ (in_handler /\ Trimmed(LineRead) # "}).") => in_handler']_vars

\* Inside the handler block the count fell to zero on '}). ' and the block went
\* on; it ended on '}).' with the count at -1.
BraceNonInterferenceWitness ==
    /\ fix_lines = <<"Handler(func() {", "}). ", "}).">>
    /\ was_in_handler = <<FALSE, TRUE, TRUE>>
    /\ result = <<"\t\tHandler(func() {", "}).", "\t\t}).">>
    /\ ~in_handler
    /\ brace_count = 0 - 1

====
